---- MODULE Spec2Model ----
(***************************************************************************)
(* Model of apps/macos/Sources/Clawdis/Resources/WebChat/bootstrap.js:     *)
(* the boot sequence startChat (storage composition, agent wiring, mount)  *)
(* and the NativeTransport.run async generator that turns one host bridge  *)
(* call into the five turn events.                                         *)
(*                                                                         *)
(* JavaScript objects are records; a field that is absent in JavaScript is *)
(* absent from the record's DOMAIN, so `x?.f ?? d` is a DOMAIN test.       *)
(***************************************************************************)
EXTENDS Integers, Sequences, FiniteSets, TLC

VARIABLES
    bootstrapIn,    \* window.__clawdisBootstrap as the host left it
    appExists,      \* document.getElementById("app") finds an element
    hostLogFn,      \* typeof window.__clawdisLog === "function"
    logFault,       \* which of the calls logStatus makes throws, if any
    bootPc,         \* position of startChat / its catch handler
    importsDone,    \* how many of the dynamic imports have resolved
    sessionKey,     \* local of startChat (line 68)
    initialMessages,\* local of startChat (line 68)
    backendStores,  \* the `stores` list handed to the backend constructor
    backendId,      \* identity of the backend built at line 83 (0: none)
    backendsMade,   \* number of IndexedDBStorageBackend instances created
    tempStores,     \* store instances created only for getConfig()
    storeMade,      \* store instances of lines 94-97 that exist
    bindings,       \* per store: the backends setBackend was called with
    bindIdx,        \* loop position of the for-of at line 99
    storageObj,     \* the AppStorage built at line 103 (NoStorage: none)
    appStorage,     \* the process-wide handle set by setAppStorage
    agent,          \* the Agent built at line 112 (NoAgent: none)
    agentMessages,  \* agent.state.messages
    promptWrapped,  \* agent.prompt has been replaced (line 123)
    panelAgent,     \* panel.setAgent(agent) has been called
    booted,         \* #app.dataset.booted
    appText,        \* #app.textContent
    panelMounted,   \* the panel is a child of #app
    bodyText,       \* document.body.innerText as set by the catch handler
    consoleLog,     \* messages passed to console.log
    hostLog,        \* messages passed to window.__clawdisLog
    statusCalls,    \* messages logStatus was called with
    bootError,      \* the error the catch handler received
    now,            \* Date.now(), a logical clock
    turn,           \* number of turns started through agent.prompt
    run,            \* the generator object of the current turn
    run2            \* a second generator in flight on the same transport

vars == <<bootstrapIn, appExists, hostLogFn, logFault, bootPc, importsDone,
          sessionKey, initialMessages, backendStores, backendId, backendsMade, tempStores,
          storeMade, bindings, bindIdx, storageObj, appStorage, agent,
          agentMessages, promptWrapped, panelAgent, booted, appText,
          panelMounted, bodyText, consoleLog, hostLog, statusCalls, bootError,
          now, turn, run, run2>>

pageVars == <<bootstrapIn, appExists, hostLogFn, logFault>>
bootVars == <<bootPc, importsDone, sessionKey, initialMessages, bootError>>
storageVars == <<backendStores, backendId, backendsMade, tempStores, storeMade,
                 bindings, bindIdx, storageObj, appStorage>>
agentVars == <<agent, promptWrapped, panelAgent>>
domVars == <<booted, appText, panelMounted, bodyText>>
logVars == <<consoleLog, hostLog, statusCalls>>

----------------------------------------------------------------------------
(* Bounds *)

\* Turns (agent.prompt calls) per page load.
MaxTurns == 2
\* next() calls the consumer makes on a generator that has already finished.
MaxExtraPulls == 1

----------------------------------------------------------------------------
(* JavaScript values *)

JStr(s) == [t |-> "string", v |-> s]
JNum(s) == [t |-> "number", v |-> s]
JUndef == [t |-> "undefined", v |-> ""]
JArr(items) == [t |-> "array", items |-> items]
JNotArr == [t |-> "string", items |-> <<>>]

TextBlock(s) == [type |-> "text", text |-> s]
ImageBlock == [type |-> "image", data |-> "png"]

\* A message of the conversation history.
HistoryMessage == [role |-> "user", content |-> <<TextBlock("earlier")>>]

\* The values the host may have put in window.__clawdisBootstrap: nothing,
\* an empty object, and objects whose two fields are well-formed or malformed
\* independently of each other.
BootstrapInputs ==
    { [present |-> FALSE, sessionKey |-> JUndef, initialMessages |-> JUndef],
      [present |-> TRUE, sessionKey |-> JUndef, initialMessages |-> JUndef],
      [present |-> TRUE, sessionKey |-> JStr("s1"),
       initialMessages |-> JArr(<<HistoryMessage>>)],
      [present |-> TRUE, sessionKey |-> JNum("42"),
       initialMessages |-> JArr(<<HistoryMessage>>)],
      [present |-> TRUE, sessionKey |-> JStr("s1"),
       initialMessages |-> JNotArr] }

\* The user messages an Agent may hand to transport.run: content missing,
\* empty, a text block, and a non-text block before or after a text block.
UserMessages ==
    { [role |-> "user"],
      [role |-> "user", content |-> <<>>],
      [role |-> "user", content |-> <<TextBlock("hi")>>],
      [role |-> "user", content |-> <<TextBlock("hi"), ImageBlock>>],
      [role |-> "user", content |-> <<ImageBlock, TextBlock("hi")>>] }

\* The objects window.__clawdisSend may resolve with: { text?: string },
\* possibly with fields the transport does not read.
BridgeResponses ==
    { <<>>,
      [text |-> "hello"],
      [text |-> "Hello!", usage |-> 7] }

\* The texts the panel passes to agent.prompt.
PromptInputs == {"Hi"}

\* cfg.model as the Agent passes it to the transport; the descriptor comes
\* from getModel("anthropic", "claude-opus-4-5") at line 115.
CfgModel == [api |-> "anthropic-messages", provider |-> "anthropic",
             id |-> "claude-opus-4-5", costPerToken |-> 5]

----------------------------------------------------------------------------
(* getBootstrap, lines 24-30 *)

\* getBootstrap with `bootstrap.sessionKey || "main"` in place of the typeof
\* test of line 28: any defined value passes through.
getBootstrapTruthy(w) ==
    LET bootstrap == IF w.present THEN w
                     ELSE [sessionKey |-> JUndef, initialMessages |-> JUndef]
    IN [initialMessages |-> IF bootstrap.initialMessages.t = "array"
                            THEN bootstrap.initialMessages.items ELSE <<>>,
        sessionKey |-> IF bootstrap.sessionKey.t # "undefined"
                       THEN bootstrap.sessionKey.v ELSE "main"]

getBootstrap(w) ==
    LET bootstrap == IF w.present THEN w
                     ELSE [sessionKey |-> JUndef, initialMessages |-> JUndef]
    IN [initialMessages |-> IF bootstrap.initialMessages.t = "array"
                            THEN bootstrap.initialMessages.items ELSE <<>>,
        sessionKey |-> IF bootstrap.sessionKey.t = "string"
                       THEN bootstrap.sessionKey.v ELSE "main"]

----------------------------------------------------------------------------
(* NativeTransport.run, lines 37-64 *)

NoRequest == [type |-> "none"]
NoResult == [none |-> TRUE]
NoMessage == [role |-> "none"]

\* userMessage.content?.[0]?.text ?? ""  (line 40)
ExtractText(userMessage) ==
    IF "content" \notin DOMAIN userMessage THEN ""
    ELSE IF Len(userMessage.content) = 0 THEN ""
    ELSE IF "text" \notin DOMAIN userMessage.content[1] THEN ""
    ELSE userMessage.content[1].text

\* The argument of window.__clawdisSend (lines 38-41).
BridgeRequest(userMessage, key) ==
    [type |-> "chat",
     payload |-> [text |-> ExtractText(userMessage), sessionKey |-> key]]

\* Usage taken from the response and priced with the model's rate.
UsageFromResult(result, cfg) ==
    LET n == IF "usage" \in DOMAIN result THEN result.usage ELSE 0
    IN [input |-> n, output |-> 0, cacheRead |-> 0, cacheWrite |-> 0,
        cost |-> [input |-> n * cfg.costPerToken, output |-> 0,
                  cacheRead |-> 0, cacheWrite |-> 0,
                  total |-> n * cfg.costPerToken]]

\* Lines 42-48.
ZeroUsage(result, cfg) ==
    [input |-> 0, output |-> 0, cacheRead |-> 0, cacheWrite |-> 0,
     cost |-> [input |-> 0, output |-> 0, cacheRead |-> 0, cacheWrite |-> 0,
               total |-> 0]]

\* result.text without the `?? ""` default.
ResultTextNoDefault(result) ==
    IF "text" \in DOMAIN result THEN result.text ELSE "undefined"

\* result.text ?? ""  (line 51)
ResultText(result) == IF "text" \in DOMAIN result THEN result.text ELSE ""

\* Lines 49-58.
AssistantMessage(result, cfg, time) ==
    [role |-> "assistant",
     content |-> <<[type |-> "text", text |-> ResultText(result)]>>,
     api |-> cfg.api,
     provider |-> cfg.provider,
     model |-> cfg.id,
     usage |-> ZeroUsage(result, cfg),
     stopReason |-> "stop",
     timestamp |-> time]

\* The yields with `turn_end` left out.
YieldedEventsNoTurnEnd(assistant) ==
    << [type |-> "turn_start"],
       [type |-> "message_start", message |-> assistant],
       [type |-> "message_end", message |-> assistant],
       [type |-> "agent_end"] >>

\* The events with message_end built around a second message object, made at
\* the time of the yield, in place of the one object of line 49.
YieldedEventsFreshEnd(assistant) ==
    << [type |-> "turn_start"],
       [type |-> "message_start", message |-> assistant],
       [type |-> "message_end",
        message |-> [assistant EXCEPT !.timestamp = assistant.timestamp + 1]],
       [type |-> "turn_end"],
       [type |-> "agent_end"] >>

\* The five yields of lines 59-63, in program order.
YieldedEvents(assistant) ==
    << [type |-> "turn_start"],
       [type |-> "message_start", message |-> assistant],
       [type |-> "message_end", message |-> assistant],
       [type |-> "turn_end"],
       [type |-> "agent_end"] >>

\* No prompt call stands behind a generator.
NoPrompt == [fn |-> "none"]

\* A generator object that does not exist yet.  Besides the generator's own
\* frame the record keeps the `messages` argument it was called with and the
\* prompt call it came from.
NoRun == [pc |-> "none", userMessage |-> [role |-> "user"], key |-> "",
          request |-> NoRequest, bridgeCalls |-> 0, bridge |-> "none",
          result |-> NoResult, error |-> "",
          assistant |-> NoMessage, yielded |-> 0, events |-> <<>>,
          signal |-> "idle", extraPulls |-> 0,
          messages |-> <<>>, prompt |-> NoPrompt]

\* run(messages, userMessage, cfg, signal) was called: the generator object
\* exists and none of its body has executed (line 37).
NewRun(userMessage, key) ==
    [NoRun EXCEPT !.pc = "created", !.userMessage = userMessage, !.key = key]

\* First next(): the body runs up to the await of line 38, having called
\* window.__clawdisSend once with the request of lines 38-41.
CallBridge(r) ==
    [r EXCEPT !.request = BridgeRequest(r.userMessage, r.key),
              !.bridgeCalls = r.bridgeCalls + 1]

\* The await of line 38 resumes with the bridge's value: lines 42-58 build
\* the assistant message and line 59 yields the first event.
OnBridgeResolve(r, result, time) ==
    LET assistant == AssistantMessage(result, CfgModel, time)
    IN [r EXCEPT !.pc = "yielded", !.result = result,
                 !.assistant = assistant, !.yielded = 1,
                 !.events = <<YieldedEvents(assistant)[1]>>]

\* A run that catches the bridge's error and carries on with an empty reply.
OnBridgeRejectSwallowed(r, err) == OnBridgeResolve(r, <<>>, 0)

\* A run that calls the bridge again when the call fails.
OnBridgeRejectRetry(r, err) ==
    [r EXCEPT !.pc = "awaiting", !.bridgeCalls = r.bridgeCalls + 1]

\* The await of line 38 throws: nothing in run catches it, so the generator
\* completes abruptly and the pending next() rejects.
OnBridgeReject(r, err) == [r EXCEPT !.pc = "failed", !.error = err]

\* Every invocation's locals in one set of variables shared by the
\* invocations of the transport: an invocation resumes with the assistant
\* message the other one built, when there is one.
ResumeFrameShared(own, other) ==
    IF other.assistant # NoMessage
    THEN [own EXCEPT !.assistant = other.assistant]
    ELSE own

\* The frame a suspended invocation of run resumes with, beside another
\* invocation on the same transport: `result`, `usage` and `assistant` are
\* consts of the generator's body (lines 38-49), one set per invocation, and
\* the instance holds nothing but sessionKey (line 34).
ResumeFrame(own, other) == own

\* A generator that consults its signal when resumed and stops once the
\* signal has fired.
OnPullChecksSignal(r) ==
    IF r.signal # "idle"
    THEN [r EXCEPT !.pc = "failed", !.error = "aborted"]
    ELSE IF r.yielded < Len(YieldedEvents(r.assistant))
    THEN [r EXCEPT !.yielded = r.yielded + 1,
                   !.events = Append(r.events,
                                     YieldedEvents(r.assistant)[r.yielded + 1])]
    ELSE [r EXCEPT !.pc = "done"]

\* A generator that never returns: resumed after its last yield it stays
\* suspended.
OnPullNeverReturns(r) ==
    IF r.yielded < Len(YieldedEvents(r.assistant))
    THEN [r EXCEPT !.yielded = r.yielded + 1,
                   !.events = Append(r.events,
                                     YieldedEvents(r.assistant)[r.yielded + 1])]
    ELSE r

\* next() on a generator suspended at one of the yields of lines 59-63: the
\* following yield delivers its event, or the body ends after the last one.
OnPull(r) ==
    IF r.yielded < Len(YieldedEvents(r.assistant))
    THEN [r EXCEPT !.yielded = r.yielded + 1,
                   !.events = Append(r.events,
                                     YieldedEvents(r.assistant)[r.yielded + 1])]
    ELSE [r EXCEPT !.pc = "done"]

\* The AbortSignal passed as `signal` fires; run never reads it (line 37 is
\* its only occurrence).  The record keeps when it fired.
OnAbort(r) ==
    [r EXCEPT !.signal = IF r.pc \in {"created", "awaiting"}
                         THEN "early" ELSE "late"]

----------------------------------------------------------------------------
(* Actions of a turn *)

\* The user message the wrapper builds, lines 124-129; attachments is kept
\* only when it has elements (line 127).
UserMessageOf(input, attachments, time) ==
    IF Len(attachments) > 0
    THEN [role |-> "user", content |-> <<TextBlock(input)>>,
          attachments |-> attachments, timestamp |-> time]
    ELSE [role |-> "user", content |-> <<TextBlock(input)>>,
          timestamp |-> time]

\* The wrapper with its two statements exchanged: the original prompt is
\* called first and the user message appended afterwards.
WrappedPromptAppendsLate(messages, input, attachments, time) ==
    [messages |-> Append(messages, UserMessageOf(input, attachments, time)),
     seen |-> messages,
     returns |-> [fn |-> "origPrompt", input |-> input,
                  attachments |-> attachments]]

\* The wrapped agent.prompt, lines 123-132: agent.appendMessage(...) and
\* then `return origPrompt(input, attachments)`.  `messages` is the agent's
\* list after the call, `seen` the list at the moment the original prompt
\* is invoked, `returns` the call whose result the wrapper returns.
WrappedPrompt(messages, input, attachments, time) ==
    LET appended == Append(messages, UserMessageOf(input, attachments, time))
    IN [messages |-> appended,
        seen |-> appended,
        returns |-> [fn |-> "origPrompt", input |-> input,
                     attachments |-> attachments]]

\* A call of the wrapped agent.prompt.  The original prompt calls
\* transport.run with the agent's messages and the user message the Agent
\* built.  The panel is the only holder of the agent, so prompts come once
\* panel.setAgent(agent) has been called (line 137), at the awaits of
\* startChat or after it has ended.
Prompt(input, attachments, userMessage) ==
    /\ panelAgent
    /\ promptWrapped
    /\ bootPc \in {"awaitSetAgent", "ready", "failed"}
    /\ turn < MaxTurns
    /\ run.pc \in {"none", "done", "failed"}
    /\ LET w == WrappedPrompt(agentMessages, input, attachments, now)
       IN /\ agentMessages' = w.messages
          /\ run' = [NewRun(userMessage, agent.transportKey)
                        EXCEPT !.messages = w.seen, !.prompt = w.returns]
    /\ now' = now + 1
    /\ turn' = turn + 1
    /\ UNCHANGED <<pageVars, bootVars, storageVars, agentVars, domVars,
                   logVars, run2>>

turnFrame == <<pageVars, bootVars, storageVars, agentVars, agentMessages,
               domVars, logVars, turn, run2>>

PullFirst ==
    /\ run.pc = "created"
    /\ run' = [CallBridge(run) EXCEPT !.pc = "awaiting", !.bridge = "pending"]
    /\ UNCHANGED <<turnFrame, now>>

\* window.__clawdisSend throws instead of returning a promise.
BridgeThrow ==
    /\ run.pc = "created"
    /\ run' = OnBridgeReject([CallBridge(run) EXCEPT !.bridge = "threw"],
                             "bridge threw")
    /\ UNCHANGED <<turnFrame, now>>

BridgeResolve(result) ==
    /\ run.pc = "awaiting"
    /\ run' = OnBridgeResolve(
                  [ResumeFrame(run, run2) EXCEPT !.bridge = "resolved"],
                  result, now)
    /\ now' = now + 1
    /\ UNCHANGED turnFrame

BridgeReject ==
    /\ run.pc = "awaiting"
    /\ run' = OnBridgeReject([run EXCEPT !.bridge = "rejected"],
                             "bridge rejected")
    /\ UNCHANGED <<turnFrame, now>>

PullNext ==
    /\ run.pc = "yielded"
    /\ run' = OnPull(ResumeFrame(run, run2))
    /\ UNCHANGED <<turnFrame, now>>

\* next() on a finished generator returns { done: true } and runs no code.
PullAfterDone ==
    /\ run.pc \in {"done", "failed"}
    /\ run.extraPulls < MaxExtraPulls
    /\ run' = [run EXCEPT !.extraPulls = run.extraPulls + 1]
    /\ UNCHANGED <<turnFrame, now>>

Abort ==
    /\ run.pc # "none"
    /\ run.signal = "idle"
    /\ run' = OnAbort(run)
    /\ UNCHANGED <<turnFrame, now>>

----------------------------------------------------------------------------
(* A second invocation of run on the same transport *)

\* The user messages of the prompts made while a turn is in flight.
UserMessages2 == { [role |-> "user", content |-> <<TextBlock("second")>>] }

turnFrame2 == <<pageVars, bootVars, storageVars, agentVars, agentMessages,
                domVars, logVars, turn, run>>

\* The wrapped agent.prompt called again while the turn it started before
\* has not ended: transport.run is invoked a second time on the one
\* NativeTransport the agent holds (line 118).
Prompt2(input, attachments, userMessage) ==
    /\ panelAgent
    /\ promptWrapped
    /\ bootPc \in {"awaitSetAgent", "ready", "failed"}
    /\ turn < MaxTurns
    /\ run.pc \in {"created", "awaiting", "yielded"}
    /\ run2.pc \in {"none", "done", "failed"}
    /\ LET w == WrappedPrompt(agentMessages, input, attachments, now)
       IN /\ agentMessages' = w.messages
          /\ run2' = [NewRun(userMessage, agent.transportKey)
                         EXCEPT !.messages = w.seen, !.prompt = w.returns]
    /\ now' = now + 1
    /\ turn' = turn + 1
    /\ UNCHANGED <<pageVars, bootVars, storageVars, agentVars, domVars,
                   logVars, run>>

PullFirst2 ==
    /\ run2.pc = "created"
    /\ run2' = [CallBridge(run2) EXCEPT !.pc = "awaiting",
                                        !.bridge = "pending"]
    /\ UNCHANGED <<turnFrame2, now>>

BridgeResolve2(result) ==
    /\ run2.pc = "awaiting"
    /\ run2' = OnBridgeResolve(
                   [ResumeFrame(run2, run) EXCEPT !.bridge = "resolved"],
                   result, now)
    /\ now' = now + 1
    /\ UNCHANGED turnFrame2

BridgeReject2 ==
    /\ run2.pc = "awaiting"
    /\ run2' = OnBridgeReject([run2 EXCEPT !.bridge = "rejected"],
                              "bridge rejected")
    /\ UNCHANGED <<turnFrame2, now>>

PullNext2 ==
    /\ run2.pc = "yielded"
    /\ run2' = OnPull(ResumeFrame(run2, run))
    /\ UNCHANGED <<turnFrame2, now>>

----------------------------------------------------------------------------
(* logStatus, lines 11-22 *)

\* The calls of logStatus that may throw: none, console.log,
\* window.__clawdisLog, or any use of document.
LogFaults == {"none", "console", "host", "document"}

\* The statements of the try block of lines 12-18 run for logStatus(msg),
\* given the element's current text and booted mark: what they wrote to
\* the two logs and to #app before one of them threw, if one did.
LogAttempt(msg, text, isBooted) ==
    LET consoleOk == logFault # "console"
        hostCalled == consoleOk /\ hostLogFn
        hostOk == consoleOk /\ ~(hostLogFn /\ logFault = "host")
        domOk == hostOk /\ logFault # "document"
    IN [consoleLog |-> IF consoleOk THEN Append(consoleLog, msg)
                       ELSE consoleLog,
        hostLog |-> IF hostCalled THEN Append(hostLog, msg) ELSE hostLog,
        appText |-> IF domOk /\ appExists /\ ~isBooted THEN msg ELSE text,
        statusCalls |-> Append(statusCalls, msg),
        threw |-> ~domOk]

\* logStatus without its try/catch: a failing logging call reaches the
\* caller.
logStatusUnguarded(msg, text, isBooted) == LogAttempt(msg, text, isBooted)

\* logStatus without the dataset.booted test of line 18.
logStatusIgnoresBooted(msg, text, isBooted) ==
    [LogAttempt(msg, text, FALSE) EXCEPT !.threw = FALSE]

\* logStatus(msg), lines 11-22: the try block, with whatever it throws
\* swallowed by the catch of line 19, so the caller never sees a throw.
logStatus(msg, text, isBooted) ==
    [LogAttempt(msg, text, isBooted) EXCEPT !.threw = FALSE]

\* The writes of a logStatus call take effect.
Logged(l) ==
    /\ consoleLog' = l.consoleLog
    /\ hostLog' = l.hostLog
    /\ statusCalls' = l.statusCalls
    /\ appText' = l.appText

----------------------------------------------------------------------------
(* startChat, lines 67-145, and its catch handler, lines 147-154 *)

\* The dynamic imports of lines 71-79.
NumImports == 9

StoreNames == {"settings", "provider-keys", "sessions", "custom-providers"}

\* new X().getConfig() and SessionsStore.getMetadataConfig(): the schema
\* descriptor of a store, named after the store it describes.
getConfig(store) == [name |-> store]
getMetadataConfig == [name |-> "sessions-metadata"]

\* The list with the metadata descriptor moved to the end.
BackendStoresArgMetadataLast ==
    << getConfig("settings"),
       getConfig("provider-keys"),
       getConfig("sessions"),
       getConfig("custom-providers"),
       getMetadataConfig >>

\* The `stores` array literal of lines 86-92.
BackendStoresArg ==
    << getConfig("settings"),
       getConfig("provider-keys"),
       getConfig("sessions"),
       getMetadataConfig,
       getConfig("custom-providers") >>

\* The array literal iterated at line 99.
BindOrder == <<"settings", "provider-keys", "sessions", "custom-providers">>

\* A loop that gives the sessions store a backend of its own.
BackendToBindOwn(store, backend) ==
    IF store = "sessions" THEN backend + 1 ELSE backend

\* The backend store.setBackend(backend) is called with at line 100.
BackendToBind(store, backend) == backend

NoStorage == [settings |-> "", providerKeys |-> "", sessions |-> "",
              customProviders |-> "", backend |-> 0]

\* new AppStorage(settingsStore, providerKeysStore, sessionsStore,
\* customProvidersStore, backend), lines 103-109.
NewAppStorageObj(backend) ==
    [settings |-> "settings", providerKeys |-> "provider-keys",
     sessions |-> "sessions", customProviders |-> "custom-providers",
     backend |-> backend]

\* startChat with the Agent built before the storage is composed.
StartChatStepsAgentFirst ==
    << "createAgent", "wrapPrompt", "setAgent", "constructBackend",
       "constructStores", "bind", "newAppStorage", "install", "mount",
       "ready" >>

\* startChat with the mount and the ready status before panel.setAgent.
StartChatStepsMountFirst ==
    << "constructBackend", "constructStores", "bind", "newAppStorage",
       "install", "createAgent", "wrapPrompt", "mount", "setAgent", "ready" >>

\* The statements of startChat after the imports, in program order
\* (lines 83-144); each is a position of bootPc.
StartChatSteps ==
    << "constructBackend",   \* lines 83-93
       "constructStores",    \* lines 94-97
       "bind",               \* lines 99-101
       "newAppStorage",      \* lines 103-109
       "install",            \* line 110
       "createAgent",        \* lines 112-120
       "wrapPrompt",         \* lines 122-132
       "setAgent",           \* lines 134-137
       "mount",              \* lines 139-144
       "ready" >>

\* The statement that follows `step` in startChat.
After(step) ==
    LET i == CHOOSE k \in 1..Len(StartChatSteps) : StartChatSteps[k] = step
    IN StartChatSteps[i + 1]

NoAgent == [made |-> FALSE, transportKey |-> "", systemPrompt |-> "",
            thinkingLevel |-> ""]

\* The errors startChat may end with.
BootErrors ==
    {"import failed", "backend construction failed", "setBackend failed",
     "setAppStorage failed", "setAgent failed", "document is not defined",
     "#app container missing", "logStatus threw"}

\* startChat() without the .catch of line 147: the rejection is unhandled.
FailUnhandled(err) ==
    /\ bootPc' = "failed"
    /\ bootError' = err

\* A rejected await or a throw inside startChat rejects its promise; the
\* handler of line 147 runs next with the error.
Fail(err) ==
    /\ bootPc' = "catch"
    /\ bootError' = err

bootFrame == <<pageVars, now, turn, run, run2>>

\* Lines 68-71: read the bootstrap descriptor, log, start the first import.
BootStart ==
    /\ bootPc = "start"
    /\ LET b == getBootstrap(bootstrapIn)
           l == logStatus("boot: starting imports", appText, booted)
       IN /\ sessionKey' = b.sessionKey
          /\ initialMessages' = b.initialMessages
          /\ Logged(l)
          /\ IF l.threw THEN Fail("logStatus threw")
             ELSE bootPc' = "importing" /\ UNCHANGED bootError
    /\ UNCHANGED <<bootFrame, importsDone, storageVars, agentVars,
                   agentMessages, booted, panelMounted, bodyText>>

\* One of the awaited imports of lines 71-79 resolves; after the last one
\* line 80 logs.
ImportResolve ==
    /\ bootPc = "importing"
    /\ importsDone' = importsDone + 1
    /\ IF importsDone + 1 = NumImports
       THEN LET l == logStatus("boot: modules loaded", appText, booted)
            IN /\ Logged(l)
               /\ IF l.threw THEN Fail("logStatus threw")
                  ELSE bootPc' = StartChatSteps[1] /\ UNCHANGED bootError
       ELSE UNCHANGED <<logVars, appText, bootPc, bootError>>
    /\ UNCHANGED <<bootFrame, sessionKey, initialMessages,
                   storageVars, agentVars, agentMessages, booted,
                   panelMounted, bodyText>>

ImportReject ==
    /\ bootPc = "importing"
    /\ Fail("import failed")
    /\ UNCHANGED <<bootFrame, importsDone, sessionKey, initialMessages,
                   storageVars, agentVars, agentMessages, domVars, logVars>>

\* Lines 83-93: four throw-away store instances supply their descriptors
\* and the backend is constructed from the list.
ConstructBackend ==
    /\ bootPc = "constructBackend"
    /\ tempStores' = tempStores + 4
    /\ backendStores' = BackendStoresArg
    /\ backendsMade' = backendsMade + 1
    /\ backendId' = backendsMade + 1
    /\ bootPc' = After("constructBackend")
    /\ UNCHANGED <<bootFrame, importsDone, sessionKey, initialMessages,
                   bootError, storeMade, bindings, bindIdx, storageObj,
                   appStorage, agentVars, agentMessages, domVars, logVars>>

ConstructBackendThrow ==
    /\ bootPc = "constructBackend"
    /\ Fail("backend construction failed")
    /\ UNCHANGED <<bootFrame, importsDone, sessionKey, initialMessages,
                   storageVars, agentVars, agentMessages, domVars, logVars>>

\* Lines 94-97.
ConstructStores ==
    /\ bootPc = "constructStores"
    /\ storeMade' = StoreNames
    /\ bootPc' = After("constructStores")
    /\ UNCHANGED <<bootFrame, importsDone, sessionKey, initialMessages,
                   bootError, backendStores, backendId, backendsMade,
                   tempStores, bindings, bindIdx, storageObj, appStorage,
                   agentVars, agentMessages, domVars, logVars>>

\* One iteration of the loop of lines 99-101.
BindStore ==
    /\ bootPc = "bind"
    /\ bindIdx <= Len(BindOrder)
    /\ LET store == BindOrder[bindIdx]
       IN bindings' = [bindings EXCEPT
              ![store] = Append(@, BackendToBind(store, backendId))]
    /\ bindIdx' = bindIdx + 1
    /\ bootPc' = IF bindIdx = Len(BindOrder) THEN After("bind") ELSE bootPc
    /\ UNCHANGED <<bootFrame, importsDone, sessionKey, initialMessages,
                   bootError, backendStores, backendId,
                   backendsMade, tempStores, storeMade, storageObj,
                   appStorage, agentVars, agentMessages, domVars, logVars>>

BindStoreThrow ==
    /\ bootPc = "bind"
    /\ bindIdx <= Len(BindOrder)
    /\ Fail("setBackend failed")
    /\ UNCHANGED <<bootFrame, importsDone, sessionKey, initialMessages,
                   storageVars, agentVars, agentMessages, domVars, logVars>>

\* Lines 103-109.
NewAppStorage ==
    /\ bootPc = "newAppStorage"
    /\ storageObj' = NewAppStorageObj(backendId)
    /\ bootPc' = After("newAppStorage")
    /\ UNCHANGED <<bootFrame, importsDone, sessionKey, initialMessages,
                   bootError, backendStores, backendId, backendsMade,
                   tempStores, storeMade, bindings, bindIdx, appStorage,
                   agentVars, agentMessages, domVars, logVars>>

\* Line 110.
SetAppStorage ==
    /\ bootPc = "install"
    /\ appStorage' = storageObj
    /\ bootPc' = After("install")
    /\ UNCHANGED <<bootFrame, importsDone, sessionKey, initialMessages,
                   bootError, backendStores, backendId, backendsMade,
                   tempStores, storeMade, bindings, bindIdx, storageObj,
                   agentVars, agentMessages, domVars, logVars>>

SetAppStorageThrow ==
    /\ bootPc = "install"
    /\ Fail("setAppStorage failed")
    /\ UNCHANGED <<bootFrame, importsDone, sessionKey, initialMessages,
                   storageVars, agentVars, agentMessages, domVars, logVars>>

\* Lines 112-120: the Agent with its initial state and a NativeTransport
\* constructed with the session key (lines 33-35).
CreateAgent ==
    /\ bootPc = "createAgent"
    /\ agent' = [made |-> TRUE, transportKey |-> sessionKey,
                 systemPrompt |-> "You are Clawd (primary session).",
                 thinkingLevel |-> "off"]
    /\ agentMessages' = initialMessages
    /\ bootPc' = After("createAgent")
    /\ UNCHANGED <<bootFrame, importsDone, sessionKey, initialMessages,
                   bootError, storageVars, promptWrapped, panelAgent,
                   domVars, logVars>>

\* Lines 122-132: agent.prompt is replaced by the wrapper.
WrapPrompt ==
    /\ bootPc = "wrapPrompt"
    /\ promptWrapped' = TRUE
    /\ bootPc' = After("wrapPrompt")
    /\ UNCHANGED <<bootFrame, importsDone, sessionKey, initialMessages,
                   bootError, storageVars, agent, panelAgent, agentMessages,
                   domVars, logVars>>

\* Lines 134-137: the panel is created and setAgent is called and awaited.
SetAgentCall ==
    /\ bootPc = "setAgent"
    /\ panelAgent' = TRUE
    /\ bootPc' = "awaitSetAgent"
    /\ UNCHANGED <<bootFrame, importsDone, sessionKey, initialMessages,
                   bootError, storageVars, agent, promptWrapped,
                   agentMessages, domVars, logVars>>

SetAgentResolve ==
    /\ bootPc = "awaitSetAgent"
    /\ bootPc' = After("setAgent")
    /\ UNCHANGED <<bootFrame, importsDone, sessionKey, initialMessages,
                   bootError, storageVars, agentVars, agentMessages, domVars,
                   logVars>>

SetAgentReject ==
    /\ bootPc = "awaitSetAgent"
    /\ Fail("setAgent failed")
    /\ UNCHANGED <<bootFrame, importsDone, sessionKey, initialMessages,
                   storageVars, agentVars, agentMessages, domVars, logVars>>

\* Lines 139-144 with the container present.
Mount ==
    /\ bootPc = "mount"
    /\ logFault # "document"
    /\ appExists
    /\ booted' = TRUE
    /\ panelMounted' = TRUE
    /\ LET l == logStatus("boot: ready", "", TRUE)
       IN /\ Logged(l)
          /\ IF l.threw THEN Fail("logStatus threw")
             ELSE bootPc' = After("mount") /\ UNCHANGED bootError
    /\ UNCHANGED <<bootFrame, importsDone, sessionKey, initialMessages,
                   storageVars, agentVars, agentMessages,
                   bodyText>>

\* Line 140 throws when the container is missing; line 139 throws when
\* document cannot be used.
MountThrow ==
    /\ bootPc = "mount"
    /\ \/ /\ logFault = "document"
          /\ Fail("document is not defined")
       \/ /\ logFault # "document"
          /\ ~appExists
          /\ Fail("#app container missing")
    /\ UNCHANGED <<bootFrame, importsDone, sessionKey, initialMessages,
                   storageVars, agentVars, agentMessages, domVars, logVars>>

\* The text line 153 puts into document.body.
FailureText(msg) == "Web chat failed to load:\\n" \o msg

\* Lines 147-154: log the failure, then render it into document.body; the
\* handler itself throws at line 150 when document cannot be used.
CatchHandler ==
    /\ bootPc = "catch"
    /\ LET l == logStatus("boot failed: " \o bootError, appText, booted)
       IN /\ Logged(l)
          /\ bodyText' = IF l.threw \/ logFault = "document" THEN bodyText
                         ELSE FailureText(bootError)
    /\ bootPc' = "failed"
    /\ UNCHANGED <<bootFrame, importsDone, sessionKey, initialMessages,
                   bootError, storageVars, agentVars, agentMessages, booted,
                   panelMounted>>

----------------------------------------------------------------------------
(* The page *)

\* The state when the bundle starts executing, before startChat() runs at
\* line 147, in a page whose logging calls may fail as `faults` says and
\* whose host log hook is installed as `hooks` says.
InitPage(faults, hooks) ==
    /\ bootstrapIn \in BootstrapInputs
    /\ appExists \in BOOLEAN
    /\ hostLogFn \in hooks
    /\ logFault \in faults
    /\ bootPc = "start"
    /\ importsDone = 0
    /\ sessionKey = ""
    /\ initialMessages = <<>>
    /\ backendStores = <<>>
    /\ backendId = 0
    /\ backendsMade = 0
    /\ tempStores = 0
    /\ storeMade = {}
    /\ bindings = [s \in StoreNames |-> <<>>]
    /\ bindIdx = 1
    /\ storageObj = NoStorage
    /\ appStorage = NoStorage
    /\ agent = NoAgent
    /\ agentMessages = <<>>
    /\ promptWrapped = FALSE
    /\ panelAgent = FALSE
    /\ booted = FALSE
    /\ appText = ""
    /\ panelMounted = FALSE
    /\ bodyText = ""
    /\ consoleLog = <<>>
    /\ hostLog = <<>>
    /\ statusCalls = <<>>
    /\ bootError = ""
    /\ now = 0
    /\ turn = 0
    /\ run = NoRun
    /\ run2 = NoRun

\* A page in which console, host log hook and document work.
Init == InitPage({"none"}, {TRUE})

\* The steps of startChat and of its catch handler.
NextBoot ==
    \/ BootStart
    \/ ImportResolve
    \/ ImportReject
    \/ ConstructBackend
    \/ ConstructBackendThrow
    \/ ConstructStores
    \/ BindStore
    \/ BindStoreThrow
    \/ NewAppStorage
    \/ SetAppStorage
    \/ SetAppStorageThrow
    \/ CreateAgent
    \/ WrapPrompt
    \/ SetAgentCall
    \/ SetAgentResolve
    \/ SetAgentReject
    \/ Mount
    \/ MountThrow
    \/ CatchHandler

\* The steps of a turn.
NextTurn ==
    \/ \E input \in PromptInputs, attachments \in {<<>>, <<"a.png">>},
          userMessage \in UserMessages :
            Prompt(input, attachments, userMessage)
    \/ PullFirst
    \/ BridgeThrow
    \/ \E result \in BridgeResponses : BridgeResolve(result)
    \/ BridgeReject
    \/ PullNext
    \/ PullAfterDone
    \/ Abort

Next == NextBoot \/ NextTurn

Spec == Init /\ [][Next]_vars

\* A page in which any one of the calls logStatus makes may throw and the
\* host log hook may be missing.
InitFaulty == InitPage(LogFaults, BOOLEAN)

\* The boot sequence in such a page.
SpecFaulty == InitFaulty /\ [][NextBoot]_vars

----------------------------------------------------------------------------
(* The page after a boot that succeeded *)

\* What startChat leaves behind when it returns from line 144 in a page
\* whose console, host log hook and container work: the storage composed and
\* installed, the agent built on the descriptor's history and key with its
\* prompt wrapped, the panel mounted, the three statuses logged.
BootedPage ==
    /\ appExists = TRUE
    /\ hostLogFn = TRUE
    /\ logFault = "none"
    /\ bootPc = "ready"
    /\ importsDone = NumImports
    /\ sessionKey = getBootstrap(bootstrapIn).sessionKey
    /\ initialMessages = getBootstrap(bootstrapIn).initialMessages
    /\ backendStores = BackendStoresArg
    /\ backendId = 1
    /\ backendsMade = 1
    /\ tempStores = 4
    /\ storeMade = StoreNames
    /\ bindings = [s \in StoreNames |-> <<BackendToBind(s, 1)>>]
    /\ bindIdx = Len(BindOrder) + 1
    /\ storageObj = NewAppStorageObj(1)
    /\ appStorage = NewAppStorageObj(1)
    /\ agent = [made |-> TRUE,
                transportKey |-> getBootstrap(bootstrapIn).sessionKey,
                systemPrompt |-> "You are Clawd (primary session).",
                thinkingLevel |-> "off"]
    /\ agentMessages = getBootstrap(bootstrapIn).initialMessages
    /\ promptWrapped = TRUE
    /\ panelAgent = TRUE
    /\ booted = TRUE
    /\ appText = ""
    /\ panelMounted = TRUE
    /\ bodyText = ""
    /\ consoleLog = <<"boot: starting imports", "boot: modules loaded",
                      "boot: ready">>
    /\ hostLog = consoleLog
    /\ statusCalls = consoleLog
    /\ bootError = ""
    /\ now = 0
    /\ turn = 0
    /\ run = NoRun
    /\ run2 = NoRun

InitBooted ==
    /\ bootstrapIn \in BootstrapInputs
    /\ BootedPage

\* Turns of a booted page whose consumer pulls whenever the generator is
\* suspended at a yield or not started, and whose bridge settles every call.
SpecLive ==
    /\ InitBooted
    /\ [][NextTurn]_vars
    /\ WF_vars(PullFirst)
    /\ WF_vars(BridgeReject \/ \E result \in BridgeResponses :
                                  BridgeResolve(result))
    /\ WF_vars(PullNext)

\* The steps of a second invocation of run.
NextTurn2 ==
    \/ \E input \in PromptInputs, userMessage \in UserMessages2 :
            Prompt2(input, <<>>, userMessage)
    \/ PullFirst2
    \/ \E result \in BridgeResponses : BridgeResolve2(result)
    \/ BridgeReject2
    \/ PullNext2

\* The steps of two invocations side by side, each prompted, pulled to its
\* end and answered or refused by the bridge.
NextConc ==
    \/ \E input \in PromptInputs, attachments \in {<<>>, <<"a.png">>},
          userMessage \in UserMessages :
            Prompt(input, attachments, userMessage)
    \/ PullFirst
    \/ \E result \in BridgeResponses : BridgeResolve(result)
    \/ BridgeReject
    \/ PullNext
    \/ NextTurn2

\* Turns of a booted page in which a prompt may come while a turn is in
\* flight.
SpecConc == InitBooted /\ [][NextConc]_vars

----------------------------------------------------------------------------
(* Properties of NativeTransport.run *)

EventKinds(events) == [i \in 1..Len(events) |-> events[i].type]

FiveKinds ==
    <<"turn_start", "message_start", "message_end", "turn_end", "agent_end">>

IsPrefix(s, t) == Len(s) <= Len(t) /\ \A i \in 1..Len(s) : s[i] = t[i]

\* C1: when the bridge call of a run resolved, the events delivered so far
\* are the leading part of turn_start, message_start, message_end, turn_end,
\* agent_end, one more per pull; the run never fails; and once the run has
\* finished exactly these five were delivered, whatever is pulled afterwards.
C1_FiveEventsInOrder ==
    run.bridge = "resolved" =>
        /\ run.pc \in {"yielded", "done"}
        /\ IsPrefix(EventKinds(run.events), FiveKinds)
        /\ run.pc = "yielded" => Len(run.events) = run.yielded
        /\ run.pc = "done" => EventKinds(run.events) = FiveKinds

\* A run whose bridge call resolved has finished and was pulled once more.
C1_Witness ==
    /\ run.bridge = "resolved"
    /\ run.pc = "done"
    /\ run.extraPulls = MaxExtraPulls
    /\ Len(run.events) = 5

\* C2: a run whose cancellation signal fired before the bridge call resolved
\* delivers no event and ends failed.
C2_CancelledBeforeResolveEmitsNothing ==
    run.signal = "early" =>
        /\ Len(run.events) = 0
        /\ run.pc \in {"created", "awaiting", "failed"}

\* C3: when the bridge call rejected or threw, the run has failed with the
\* bridge's error and has delivered no event.
C3_BridgeFailureFailsWholeRun ==
    /\ run.bridge \in {"rejected", "threw"} =>
          /\ run.pc = "failed"
          /\ run.events = <<>>
          /\ run.error = "bridge " \o run.bridge
    /\ run.pc = "failed" => run.events = <<>>

\* A run failed by a rejected bridge call, pulled again afterwards.
C3_Witness ==
    /\ run.bridge = "rejected"
    /\ run.pc = "failed"
    /\ run.extraPulls = MaxExtraPulls

\* C4: a run has called the bridge exactly once from its first pull on,
\* and not at all before; and no step of a run touches the storage
\* composition or the document.
C4_ExactlyOneBridgeCall ==
    /\ [](/\ run.pc \in {"none", "created"} => run.bridgeCalls = 0
          /\ run.pc \notin {"none", "created"} => run.bridgeCalls = 1)
    /\ [][run' # run => UNCHANGED <<storageVars, domVars, logVars>>]_vars

\* A run that failed and one that finished, each pulled again, after one call.
C4_Witness ==
    /\ run.pc \in {"failed", "done"}
    /\ run.extraPulls = MaxExtraPulls
    /\ run.bridgeCalls = 1
    /\ turn = MaxTurns

\* The text of the first content block of type text, "" when there is none.
FirstTextBlockText(userMessage) ==
    IF "content" \notin DOMAIN userMessage THEN ""
    ELSE LET texts == {i \in 1..Len(userMessage.content) :
                          userMessage.content[i].type = "text"}
         IN IF texts = {} THEN ""
            ELSE userMessage.content[
                     CHOOSE i \in texts : \A j \in texts : i <= j].text

\* C5: the request handed to the bridge is { type: "chat", payload: { text,
\* sessionKey } } with the transport's session key and the text of the first
\* text block of the user message, "" when it has no text block.
C5_RequestShape ==
    run.request # NoRequest =>
        run.request =
            [type |-> "chat",
             payload |-> [text |-> FirstTextBlockText(run.userMessage),
                          sessionKey |-> agent.transportKey]]

MessagesOf(events) ==
    {events[i].message : i \in {j \in 1..Len(events) :
                                    "message" \in DOMAIN events[j]}}

\* C6: the assistant message of every delivered event has one content
\* block, of type text, holding the response's text field or "" when the
\* response has none; its role is assistant and its stopReason is "stop".
C6_AssistantMessageShape ==
    \A m \in MessagesOf(run.events) :
        /\ Len(m.content) = 1
        /\ m.content[1].type = "text"
        /\ DOMAIN m.content[1] = {"type", "text"}
        /\ m.content[1].text =
              (IF "text" \in DOMAIN run.result THEN run.result.text ELSE "")
        /\ m.role = "assistant"
        /\ m.stopReason = "stop"

\* A response without a text field has been delivered as message_end.
C6_Witness ==
    /\ run.result = <<>>
    /\ Len(run.events) >= 3
    /\ run.events[3].message.content = <<[type |-> "text", text |-> ""]>>

\* C7: in every delivered event that carries a message the four usage
\* counters and the five cost fields are 0.
C7_UsageAllZero ==
    \A m \in MessagesOf(run.events) :
        /\ \A f \in {"input", "output", "cacheRead", "cacheWrite"} :
              m.usage[f] = 0
        /\ \A f \in {"input", "output", "cacheRead", "cacheWrite", "total"} :
              m.usage.cost[f] = 0

\* A response that reports usage has been delivered in a message event.
C7_Witness ==
    /\ "usage" \in DOMAIN run.result
    /\ MessagesOf(run.events) # {}

----------------------------------------------------------------------------
(* Properties of the storage composition in startChat *)

SchemaNames == [i \in 1..Len(backendStores) |-> backendStores[i].name]

\* C8: the backend is constructed with the descriptors of settings,
\* provider-keys, sessions, sessions-metadata, custom-providers, in this
\* order and each once, in every boot run.
C8_SchemaOrder ==
    backendId # 0 =>
        /\ SchemaNames = <<"settings", "provider-keys", "sessions",
                           "sessions-metadata", "custom-providers">>
        /\ Cardinality({SchemaNames[i] : i \in 1..Len(SchemaNames)})
              = Len(SchemaNames)
        /\ backendsMade = 1

\* The backend has been constructed and boot has completed.
C8_Witness ==
    /\ backendId # 0
    /\ Len(backendStores) = 5
    /\ bootPc = "ready"

HandedStores(obj) ==
    {obj.settings, obj.providerKeys, obj.sessions, obj.customProviders}

\* C9: no store is bound more than once or to anything but the one backend
\* of this boot; when AppStorage is constructed its four stores have each
\* been bound once, to the backend it is given; and the handle installed by
\* setAppStorage is that AppStorage.
C9_StoresBoundOnceToOneBackend ==
    /\ \A s \in StoreNames :
          /\ Len(bindings[s]) <= 1
          /\ \A i \in 1..Len(bindings[s]) : bindings[s][i] = backendId
    /\ storageObj # NoStorage =>
          /\ storageObj.backend = backendId
          /\ backendId # 0
          /\ HandedStores(storageObj) = StoreNames
          /\ \A s \in HandedStores(storageObj) :
                bindings[s] = <<storageObj.backend>>
    /\ appStorage # NoStorage =>
          /\ appStorage = storageObj
          /\ storageObj # NoStorage

\* The handle has been installed with all four stores bound.
C9_Witness ==
    /\ appStorage # NoStorage
    /\ \A s \in StoreNames : bindings[s] = <<appStorage.backend>>

\* C10: when the Agent exists the backend has been constructed, the stores
\* are bound and the storage handle is installed; so is it whenever a turn
\* has started or a bridge call has been issued.
C10_StorageBeforeAgent ==
    /\ agent.made =>
          /\ backendId # 0
          /\ \A s \in StoreNames : Len(bindings[s]) = 1
          /\ appStorage # NoStorage
          /\ appStorage = storageObj
    /\ (turn > 0 \/ run.pc # "none" \/ run.bridgeCalls > 0) =>
          /\ agent.made
          /\ appStorage # NoStorage

\* A bridge call has been issued while startChat was still awaiting
\* panel.setAgent.
C10_Witness ==
    /\ run.bridgeCalls = 1
    /\ bootPc = "awaitSetAgent"
    /\ appStorage # NoStorage

----------------------------------------------------------------------------
(* Properties of the boot sequence and of logStatus *)

Last(seq) == seq[Len(seq)]

\* C11: every failure of a boot step reaches the catch handler, and a boot
\* that has ended in failure has logged "boot failed: ..." and rendered the
\* failure text into the document; a boot with no step left to take has
\* either reached "boot: ready" or rendered the failure.
C11_BootFailureDiagnosed ==
    /\ bootError # "" => bootPc \in {"catch", "failed"}
    /\ bootPc \in {"catch", "failed"} => bootError \in BootErrors
    /\ bootPc = "failed" =>
          /\ bodyText = "Web chat failed to load:\\n" \o bootError
          /\ consoleLog # <<>>
          /\ Last(consoleLog) = "boot failed: " \o bootError
          /\ Last(hostLog) = "boot failed: " \o bootError
    /\ ~ENABLED NextBoot =>
          \/ bootPc = "ready" /\ Last(consoleLog) = "boot: ready"
          \/ bootPc = "failed" /\ bodyText # ""

\* A boot that found no #app container has ended with the diagnostic.
C11_Witness ==
    /\ bootPc = "failed"
    /\ bootError = "#app container missing"
    /\ bodyText = "Web chat failed to load:\\n#app container missing"
    /\ Last(consoleLog) = "boot failed: #app container missing"

\* C12: whatever call inside logStatus fails, the step that called it goes
\* on as it does when logging succeeds: startChat proceeds to the imports,
\* to the storage composition and to ready, the catch handler renders the
\* failure, and no step ever ends with an error thrown by logStatus.
C12_LogStatusNeverThrows ==
    [][ /\ bootPc = "start" => bootPc' = "importing"
        /\ (bootPc = "importing" /\ importsDone' = NumImports) =>
              bootPc' = "constructBackend"
        /\ (bootPc = "mount" /\ booted') => bootPc' = "ready"
        /\ bootPc = "catch" =>
              /\ bootPc' = "failed"
              /\ logFault # "document" =>
                    bodyText' = "Web chat failed to load:\\n" \o bootError
        /\ bootError' # "logStatus threw"
      ]_vars

\* console.log threw on every call and boot reached ready all the same.
C12_Witness ==
    /\ logFault = "console"
    /\ bootPc = "ready"
    /\ Len(statusCalls) = 3
    /\ consoleLog = <<>>

\* The logStatus call of this step got as far as finding #app.
FindsContainer ==
    /\ appExists
    /\ logFault \notin {"console", "document"}
    /\ ~(logFault = "host" /\ hostLogFn)

\* C19: once #app is marked booted its text never changes; the step that
\* sets the mark leaves the text empty although it logs "boot: ready"; and
\* before the mark a logStatus call that finds the container sets its text
\* to the message it was called with, while nothing else changes the text.
C19_BootedTextFrozen ==
    [][ /\ booted => appText' = appText
        /\ (~booted /\ booted') => appText' = ""
        /\ (~booted' /\ statusCalls' # statusCalls /\ FindsContainer) =>
              appText' = Last(statusCalls')
        /\ (~booted' /\ ~(statusCalls' # statusCalls /\ FindsContainer)) =>
              appText' = appText
      ]_vars

\* "boot: ready" was logged to the console of a booted page whose container
\* shows no text.
C19_Witness ==
    /\ booted
    /\ appText = ""
    /\ consoleLog # <<>>
    /\ Last(consoleLog) = "boot: ready"

ReadyLogged == \E i \in 1..Len(statusCalls) : statusCalls[i] = "boot: ready"

FailureLogged ==
    \E i \in 1..Len(statusCalls) :
        statusCalls[i] \in {"boot failed: " \o e : e \in BootErrors}

\* C20: "boot: ready" and "boot failed: ..." are never both logged in one
\* boot run; when "boot: ready" has been logged the storage handle is
\* installed, the panel has the agent and is mounted, and the catch handler
\* has not run and never will.
C20_ReadyExcludesFailure ==
    /\ ~(ReadyLogged /\ FailureLogged)
    /\ ReadyLogged =>
          /\ appStorage # NoStorage
          /\ agent.made
          /\ panelAgent
          /\ panelMounted
          /\ booted
          /\ bootPc = "ready"
          /\ bootError = ""
    /\ FailureLogged => bootPc = "failed"

\* The host log hook threw while "boot: ready" was being logged, and boot
\* stayed ready.
C20_Witness ==
    /\ ReadyLogged
    /\ logFault = "host"
    /\ hostLogFn
    /\ bootPc = "ready"

----------------------------------------------------------------------------
(* C13 *)

\* The session key and history the page's descriptor prescribes, each field
\* on its own: the descriptor's value when it has the right type, the
\* default otherwise or when there is no descriptor.
DescriptorKey ==
    IF bootstrapIn.present /\ bootstrapIn.sessionKey.t = "string"
    THEN bootstrapIn.sessionKey.v ELSE "main"

DescriptorMessages ==
    IF bootstrapIn.present /\ bootstrapIn.initialMessages.t = "array"
    THEN bootstrapIn.initialMessages.items ELSE <<>>

\* C13: getBootstrap returns the descriptor's initialMessages when that is an
\* array and [] otherwise, and its sessionKey when that is a string and "main"
\* otherwise, each default applying on its own and also without a descriptor;
\* the transport is built with that key and every bridge request carries it.
C13_BootstrapDefaults ==
    /\ bootPc # "start" =>
          /\ sessionKey = DescriptorKey
          /\ initialMessages = DescriptorMessages
    /\ agent.made => agent.transportKey = DescriptorKey
    /\ run.pc # "none" => run.key = DescriptorKey
    /\ run.request # NoRequest =>
          run.request.payload.sessionKey = DescriptorKey

\* A descriptor with a usable history and a sessionKey that is not a string:
\* the history is kept, the key defaults, and a bridge request went out.
C13_Witness ==
    /\ bootstrapIn.present
    /\ bootstrapIn.sessionKey.t = "number"
    /\ initialMessages = <<HistoryMessage>>
    /\ run.request # NoRequest
    /\ run.request.payload.sessionKey = "main"

----------------------------------------------------------------------------
(* C14 *)

\* C14: every call of the wrapped agent.prompt(input, attachments) appends
\* one user message, role user with the single text block holding input, to
\* the agent's messages before the original prompt is invoked, so the list
\* the original prompt and the transport's turn start from ends with it at
\* every point of the turn; one message is appended per call, and what the
\* wrapper returns is the result of origPrompt(input, attachments).
C14_UserMessageAppendedFirst ==
    /\ agent.made => Len(agentMessages) = Len(initialMessages) + turn
    /\ \A k \in 1..turn :
          LET m == agentMessages[Len(initialMessages) + k]
          IN /\ m.role = "user"
             /\ Len(m.content) = 1
             /\ m.content[1].type = "text"
             /\ m.content[1].text \in PromptInputs
    /\ run.pc # "none" =>
          /\ run.prompt.fn = "origPrompt"
          /\ run.messages # <<>>
          /\ Last(run.messages).role = "user"
          /\ Last(run.messages).content = <<TextBlock(run.prompt.input)>>
          /\ ("attachments" \in DOMAIN Last(run.messages))
                <=> (Len(run.prompt.attachments) > 0)
          /\ run.messages = agentMessages

\* The second prompt of a page with a history has delivered events, its
\* user message, attachments included, being the last of the messages.
C14_Witness ==
    /\ turn = 2
    /\ initialMessages # <<>>
    /\ run.events # <<>>
    /\ Len(agentMessages) = Len(initialMessages) + 2
    /\ "attachments" \in DOMAIN Last(agentMessages)
    /\ Last(agentMessages).content = <<TextBlock("Hi")>>

----------------------------------------------------------------------------
(* C15 *)

\* C15: a signal that fires only after the bridge call has resolved, at any
\* point up to agent_end, changes nothing: the run neither fails nor stops
\* short, what it has delivered is a prefix of the five events, and when it
\* ends it has delivered all five with the text of the bridge response.
C15_LateCancelHasNoEffect ==
    (run.signal = "late" /\ run.bridge = "resolved") =>
        /\ run.pc \in {"yielded", "done"}
        /\ run.error = ""
        /\ Len(run.events) = run.yielded
        /\ IsPrefix(EventKinds(run.events), FiveKinds)
        /\ run.events = SubSeq(YieldedEvents(run.assistant), 1, run.yielded)
        /\ run.assistant.content = <<TextBlock(ResultText(run.result))>>
        /\ run.pc = "done" => EventKinds(run.events) = FiveKinds

\* The signal fired after the resolution and the run went on to agent_end
\* with the response's text.
C15_Witness ==
    /\ run.signal = "late"
    /\ run.bridge = "resolved"
    /\ run.pc = "done"
    /\ EventKinds(run.events) = FiveKinds
    /\ run.events[2].message.content = <<TextBlock("Hello!")>>

----------------------------------------------------------------------------
(* C16 *)

\* Whether an event is one of the two variants that bear a message.
BearsMessage(e) == e.type \in {"message_start", "message_end"}

\* C16: in every emitted sequence message_start is followed directly by
\* message_end and message_end preceded directly by message_start, the two
\* carrying the same assistant message, timestamp and content included; the
\* events turn_start, turn_end and agent_end have the type field only.
C16_MessagePairMatched ==
    \A i \in 1..Len(run.events) :
        LET e == run.events[i]
        IN /\ BearsMessage(e) =>
                 /\ DOMAIN e = {"type", "message"}
                 /\ e.message = run.assistant
                 /\ e.message.role = "assistant"
           /\ ~BearsMessage(e) =>
                 /\ e.type \in {"turn_start", "turn_end", "agent_end"}
                 /\ DOMAIN e = {"type"}
           /\ e.type = "message_start" =>
                 /\ i + 1 <= Len(YieldedEvents(run.assistant))
                 /\ i + 1 <= Len(run.events) =>
                       /\ run.events[i + 1].type = "message_end"
                       /\ run.events[i + 1].message = e.message
           /\ e.type = "message_end" =>
                 /\ i > 1
                 /\ run.events[i - 1].type = "message_start"
                 /\ run.events[i - 1].message = e.message
                 /\ run.events[i - 1].message.timestamp = e.message.timestamp

\* A run that has delivered the pair: the second and third events carry one
\* message, and the first event has no message.
C16_Witness ==
    /\ Len(run.events) >= 3
    /\ run.events[2].type = "message_start"
    /\ run.events[3].type = "message_end"
    /\ run.events[2].message = run.events[3].message
    /\ DOMAIN run.events[1] = {"type"}

----------------------------------------------------------------------------
(* C17 *)

\* A run that has ended: the generator returned after agent_end, or threw.
Terminated(r) ==
    \/ /\ r.pc = "done"
       /\ r.events # <<>>
       /\ Last(r.events).type = "agent_end"
    \/ r.pc = "failed"

\* C17: run produces a finite sequence: it never delivers more than the five
\* events, and, the bridge settling every call and the consumer pulling
\* whenever the generator waits for it, a run that exists ends, either done
\* with agent_end as its last event or failed.
C17_RunTerminates ==
    /\ [](Len(run.events) <= Len(FiveKinds))
    /\ (run.pc \in {"created", "awaiting", "yielded"}) ~> Terminated(run)

\* A run of the second turn returned after its five events.
C17_Witness ==
    /\ turn = 2
    /\ run.pc = "done"
    /\ Len(run.events) = 5
    /\ Last(run.events).type = "agent_end"

----------------------------------------------------------------------------
(* C18 *)

\* What an invocation has delivered is its own: its request is built from
\* its own user message, its events are the first of the five around the
\* assistant message made from the response to its own bridge call, and
\* when it has returned it has delivered all five.
OwnTurn(r) ==
    /\ r.request # NoRequest =>
          r.request = BridgeRequest(r.userMessage, r.key)
    /\ r.bridge = "resolved" =>
          /\ r.assistant.content = <<TextBlock(ResultText(r.result))>>
          /\ r.events = SubSeq(YieldedEvents(r.assistant), 1, r.yielded)
          /\ \A i \in 1..Len(r.events) :
                BearsMessage(r.events[i]) =>
                   r.events[i].message.content[1].text = ResultText(r.result)
          /\ r.pc \in {"yielded", "done"}
          /\ r.pc = "done" => EventKinds(r.events) = FiveKinds
    /\ r.bridge # "resolved" => r.events = <<>>

\* Both invocations are alive or have been: the second was made while the
\* first was in flight.
BothInvoked == run.pc # "none" /\ run2.pc # "none"

\* C18: with two invocations of run on the one transport in flight and
\* their bridge calls resolving in any order, each delivers its own five
\* events with the text of the response to its own request, both were made
\* with the transport's one sessionKey, and no step of either changes that
\* key, the agent's messages or the history either was called with.
C18_ConcurrentRunsIsolated ==
    /\ [](BothInvoked =>
            /\ OwnTurn(run)
            /\ OwnTurn(run2)
            /\ run.key = agent.transportKey
            /\ run2.key = agent.transportKey)
    /\ [][(turn' = turn /\ BothInvoked) =>
            /\ agent' = agent
            /\ agentMessages' = agentMessages
            /\ sessionKey' = sessionKey
            /\ run'.messages = run.messages
            /\ run2'.messages = run2.messages
            /\ run'.key = run.key
            /\ run2'.key = run2.key]_vars

\* Both invocations returned after five events each, the second one's
\* bridge call having resolved first, with different texts.
C18_Witness ==
    /\ run.pc = "done"
    /\ run2.pc = "done"
    /\ run2.assistant.timestamp < run.assistant.timestamp
    /\ run.events[2].message.content = <<TextBlock("hello")>>
    /\ run2.events[2].message.content = <<TextBlock("Hello!")>>
    /\ run.request.payload.text # run2.request.payload.text

====
